---- MODULE Spec2Model ----
(***************************************************************************)
(* State-machine model of staggering_algorithm (src/RQ.py, lines 149-259): *)
(* horizon derivation, inventory profiles, the greedy construction and the *)
(* local-search improvement phase.                                         *)
(*                                                                         *)
(* Conventions.                                                            *)
(*  - Python lists are TLA+ sequences; list index t-1 is sequence index t, *)
(*    item index i (0-based in the code) is i+1 here.                      *)
(*  - Demand rates are Python floats.  The model draws them from dyadic    *)
(*    rationals k/Scale, which binary floating point represents exactly,   *)
(*    and stores every inventory quantity as the integer k (a multiple of  *)
(*    1/Scale).  On such inputs every float product, sum, difference and   *)
(*    comparison of the code is exact, so integer arithmetic on k is what  *)
(*    the code computes.  The reported peak H is a plain integer.          *)
(***************************************************************************)
EXTENDS Integers, Sequences, FiniteSets, TLC

VARIABLES m, d, T_max,
          pc, err,
          M, schedules, contributions, total_inv, items,
          j, k, improved, current_peak, H

vars == <<m, d, T_max, pc, err, M, schedules, contributions, total_inv,
          items, j, k, improved, current_peak, H>>

(***************************************************************************)
(* Bounds of the model.                                                    *)
(***************************************************************************)
MaxN == 3     \* at most MaxN items
MaxM == 3     \* cycle multipliers are drawn from 1..MaxM
MaxT == 6     \* largest horizon cap T_max

\* One unit of demand is Scale model units (d_i = k/Scale).
Scale == 32

\* Python's None (best_f before any candidate was accepted).
None == -1

\* Demand rates offered to the run: 0, 1/32 and 1.
DemandSet == {0, 1, Scale}

\* Demand rates offered to the runs whose termination is checked.
LiveDemandSet == {1, Scale}

\* Horizon caps offered to the run.
TmaxSet == {1, MaxT \div 2, MaxT}

\* A negative demand rate (invalid input).
NegDemandSet == {-Scale}

(***************************************************************************)
(* Pure helpers.                                                           *)
(***************************************************************************)
Abs(x) == IF x < 0 THEN -x ELSE x

\* The element of a one-element set.  Only({F(x) : x \in {e}}) is F(e) with
\* e computed once and then read through x, as a local variable is.
Only(S) == CHOOSE x \in S : TRUE

\* math.gcd: Euclid's algorithm on absolute values; gcd(0, 0) = 0.
RECURSIVE gcd(_, _)
gcd(a, b) == IF b = 0 THEN Abs(a) ELSE gcd(b, a % Abs(b))

\* A wrong lcm: the product, without the division by the gcd.
lcmNoGcd(a, b) == IF a # 0 /\ b # 0 THEN Abs(a * b) ELSE 0

lcm(a, b) == IF a # 0 /\ b # 0 THEN Abs(a * b) \div gcd(a, b) ELSE 0

\* for num in nums[1:]: current_lcm = lcm(current_lcm, num)
RECURSIVE lcm_fold(_, _, _)
lcm_fold(current_lcm, nums, p) ==
    IF p > Len(nums) THEN current_lcm
    ELSE lcm_fold(lcm(current_lcm, nums[p]), nums, p + 1)

lcm_of_list(nums) == IF nums = <<>> THEN 1 ELSE lcm_fold(nums[1], nums, 2)

\* M = M_cycle if M_cycle <= T_max else T_max
Horizon(nums, cap) ==
    LET M_cycle == lcm_of_list(nums)
    IN  IF M_cycle <= cap THEN M_cycle ELSE cap

\* A wrong profile: the sawtooth counted upwards (the "m_i -" is lost).
ProfileRising(m_i, d_i, f_i, MM) ==
    [t \in 1..MM |-> d_i * ((t - f_i) % m_i)]

\* [d_i * (m_i - ((t - f_i) % m_i)) for t in range(1, M+1)]
compute_inventory_profile(m_i, d_i, f_i, MM) ==
    [t \in 1..MM |-> d_i * (m_i - ((t - f_i) % m_i))]

\* [a[t] + b[t] for t in range(M)]
VecAdd(a, b, MM) == [t \in 1..MM |-> a[t] + b[t]]

\* [a[t] - b[t] for t in range(M)]
VecSub(a, b, MM) == [t \in 1..MM |-> a[t] - b[t]]

\* max(list) of a non-empty list: the builtin's result, its largest element.
max(s) == CHOOSE x \in {s[p] : p \in 1..Len(s)} :
              \A p \in 1..Len(s) : s[p] <= x

\* round(x, 1) of x = v/Scale: the number of tenths nearest to x, ties to
\* the even tenth (the value is exact in binary, so the tie is a real tie).
round1(v) ==
    LET num == 10 * v
        q   == num \div Scale
        r   == num % Scale
    IN  IF 2 * r < Scale THEN q
        ELSE IF 2 * r > Scale THEN q + 1
        ELSE IF q % 2 = 0 THEN q ELSE q + 1

\* math.ceil of a number given in tenths.
ceil_tenths(x) == -((-x) \div 10)

\* A wrong report: the peak is truncated instead of rounded up.
ReportedPeakFloor(v) == v \div Scale

\* H = math.ceil(round(H, 1))
ReportedPeak(v) == ceil_tenths(round1(v))

(***************************************************************************)
(* Sorting (lines 190-191).  items holds the item indices in sorted order; *)
(* the (i, m[i], d[i]) triples of the code are read back through m and d.  *)
(* list.sort is stable; for lists this short it is an insertion sort.      *)
(***************************************************************************)
\* key=lambda x: x[1]*x[2]
LotSize(mm, dd, i) == mm[i] * dd[i]

\* First position of sorted whose key is strictly greater than that of i
\* (Len(sorted)+1 if there is none): equal keys stay in front of i.
RECURSIVE insert_pos(_, _, _, _, _)
insert_pos(sorted, i, mm, dd, p) ==
    IF p > Len(sorted) THEN p
    ELSE IF LotSize(mm, dd, sorted[p]) > LotSize(mm, dd, i) THEN p
    ELSE insert_pos(sorted, i, mm, dd, p + 1)

RECURSIVE sort_fold(_, _, _, _)
sort_fold(sorted, i, mm, dd) ==
    IF i > Len(mm) THEN sorted
    ELSE LET p == insert_pos(sorted, i, mm, dd, 1)
         IN  sort_fold(SubSeq(sorted, 1, p - 1) \o <<i>> \o
                       SubSeq(sorted, p, Len(sorted)), i + 1, mm, dd)

SortedItems(mm, dd) == sort_fold(<<>>, 1, mm, dd)

(***************************************************************************)
(* Greedy construction: the scan over starting periods (lines 203-216).    *)
(***************************************************************************)
\* A wrong range: range(m_i), the offsets 0..m_i-1.
greedy_offsets_zero_based(m_i) == [p \in 1..m_i |-> p - 1]

\* range(1, m_i + 1)
greedy_offsets(m_i) == [p \in 1..m_i |-> p]

\* A wrong test: <= lets a later offset of equal peak replace the first.
GreedyImprovesOrTies(peak_candidate, best_peak, best_f) ==
    best_f = None \/ peak_candidate <= best_peak

\* if peak_candidate < best_peak.  best_peak is float('inf') exactly as long
\* as best_f is None, and every peak is below infinity.
GreedyImproves(peak_candidate, best_peak, best_f) ==
    best_f = None \/ peak_candidate < best_peak

\* best_peak = inf (held as 0 and never read while best_f = None),
\* best_f = None, best_contribution = None (held as the empty list).
NoBest == [peak |-> 0, f |-> None, contribution |-> <<>>]

\* Lines 209-216: one starting period f is tried against the best so far.
GreedyTry(f, m_i, d_i, base, MM, best) ==
    LET candidate_contrib == compute_inventory_profile(m_i, d_i, f, MM)
        candidate_total   == VecAdd(base, candidate_contrib, MM)
        peak_candidate    == max(candidate_total)
    IN  IF GreedyImproves(peak_candidate, best.peak, best.f)
        THEN [peak |-> peak_candidate, f |-> f,
              contribution |-> candidate_contrib]
        ELSE best

\* Lines 208-216: best_peak, best_f and best_contribution after the first p
\* starting periods of offs have been tried, in order.
RECURSIVE greedy_scan(_, _, _, _, _, _)
greedy_scan(p, offs, m_i, d_i, base, MM) ==
    IF p = 0 THEN NoBest
    ELSE Only({GreedyTry(offs[p], m_i, d_i, base, MM, best) :
                  best \in {greedy_scan(p - 1, offs, m_i, d_i, base, MM)}})

GreedyBest(m_i, d_i, base, MM) ==
    greedy_scan(Len(greedy_offsets(m_i)), greedy_offsets(m_i), m_i, d_i,
                base, MM)

\* A wrong commit: the aggregate is overwritten by the item's contribution.
CommitAggregateNoBase(base, best_contribution, MM) ==
    [t \in 1..MM |-> best_contribution[t]]

\* total_inv = [base[t] + best_contribution[t] for t in range(M)]
CommitAggregate(base, best_contribution, MM) ==
    VecAdd(base, best_contribution, MM)

\* Lines 194-197 as a function of the state they read.
SeedStep(idx0, mm, dd, MM, sched, contr) ==
    LET c0 == compute_inventory_profile(mm[idx0], dd[idx0], 1, MM)
    IN  [schedules     |-> [sched EXCEPT ![idx0] = 1],
         contributions |-> [contr EXCEPT ![idx0] = c0],
         total_inv     |-> c0]

\* Lines 218-221: the commit of the scan's result.
GreedyCommit(i, MM, sched, contr, base, best) ==
    [schedules     |-> [sched EXCEPT ![i] = best.f],
     contributions |-> [contr EXCEPT ![i] = best.contribution],
     total_inv     |-> CommitAggregate(base, best.contribution, MM)]

\* Lines 201-221 for one item i, as a function of the state they read.
GreedyStep(i, mm, dd, MM, sched, contr, tot) ==
    Only({GreedyCommit(i, MM, sched, contr, tot, best) :
             best \in {GreedyBest(mm[i], dd[i], tot, MM)}})

\* Lines 200-221: the greedy loop from position p of the sorted order on.
RECURSIVE greedy_loop(_, _, _, _, _, _)
greedy_loop(p, its, mm, dd, MM, st) ==
    IF p > Len(its) THEN st
    ELSE greedy_loop(p + 1, its, mm, dd, MM,
             GreedyStep(its[p], mm, dd, MM, st.schedules, st.contributions,
                        st.total_inv))

\* Lines 185-221: what the construction phase hands to the improvement
\* phase, for at least one item.
GreedyResult(mm, dd, MM) ==
    LET its == SortedItems(mm, dd)
    IN  greedy_loop(2, its, mm, dd, MM,
            SeedStep(its[1], mm, dd, MM, [i \in 1..Len(mm) |-> 0],
                     [i \in 1..Len(mm) |-> <<>>]))

(***************************************************************************)
(* Improvement phase: one visit of one item (lines 230-254).               *)
(***************************************************************************)
\* A wrong range: the last starting period m_i is never tried.
refiner_offsets_short(m_i) == [p \in 1..(m_i - 1) |-> p]

\* range(1, m_i + 1)
refiner_offsets(m_i) == [p \in 1..m_i |-> p]

\* Wrong tests: accept a candidate that is no worse / that is worse.
RefinerImprovesOrTies(peak_candidate, cur_peak) == peak_candidate <= cur_peak
RefinerWorsens(peak_candidate, cur_peak) == peak_candidate > cur_peak

\* if peak_candidate < current_peak
RefinerImproves(peak_candidate, cur_peak) == peak_candidate < cur_peak

\* A wrong scan step: the running current_peak is not lowered when a
\* candidate is accepted, so every later candidate is compared with the
\* peak the item's scan started from.
RefinerTryStalePeak(f, m_i, d_i, current_f, base, MM, acc) ==
    LET candidate_contrib == compute_inventory_profile(m_i, d_i, f, MM)
        candidate_total   == VecAdd(base, candidate_contrib, MM)
        peak_candidate    == max(candidate_total)
    IN  IF f = current_f THEN acc
        ELSE IF RefinerImproves(peak_candidate, acc.current_peak)
        THEN [current_peak |-> acc.current_peak, best_f |-> f,
              best_contribution |-> candidate_contrib, improved |-> TRUE]
        ELSE acc

\* Lines 237-248: one starting period f is tried against the running
\* current_peak; acc holds current_peak, best_f, best_contribution, improved.
RefinerTry(f, m_i, d_i, current_f, base, MM, acc) ==
    LET candidate_contrib == compute_inventory_profile(m_i, d_i, f, MM)
        candidate_total   == VecAdd(base, candidate_contrib, MM)
        peak_candidate    == max(candidate_total)
    IN  IF f = current_f THEN acc
        ELSE IF RefinerImproves(peak_candidate, acc.current_peak)
        THEN [current_peak |-> peak_candidate, best_f |-> f,
              best_contribution |-> candidate_contrib, improved |-> TRUE]
        ELSE acc

\* Lines 236-248: the scan's variables after the first p starting periods
\* of offs have been tried, in order, starting from init.
RECURSIVE refiner_scan(_, _, _, _, _, _, _, _)
refiner_scan(p, offs, m_i, d_i, current_f, base, MM, init) ==
    IF p = 0 THEN init
    ELSE Only({RefinerTry(offs[p], m_i, d_i, current_f, base, MM, acc) :
                  acc \in {refiner_scan(p - 1, offs, m_i, d_i, current_f,
                                        base, MM, init)}})

\* A wrong commit: the new offset is stored, the item's contribution is
\* left as it was.
RefinerCommitStaleContribution(idx, MM, sched, contr, tot, base, acc) ==
    [schedules     |-> IF acc.best_f # sched[idx]
                       THEN [sched EXCEPT ![idx] = acc.best_f] ELSE sched,
     contributions |-> contr,
     total_inv     |-> IF acc.best_f # sched[idx]
                       THEN CommitAggregate(base, acc.best_contribution, MM)
                       ELSE tot,
     current_peak  |-> acc.current_peak,
     improved      |-> acc.improved,
     commit        |-> acc.best_f # sched[idx]]

\* Lines 250-254: the commit of the scan's result, if it found a better
\* starting period.
RefinerCommit(idx, MM, sched, contr, tot, base, acc) ==
    [schedules     |-> IF acc.best_f # sched[idx]
                       THEN [sched EXCEPT ![idx] = acc.best_f] ELSE sched,
     contributions |-> IF acc.best_f # sched[idx]
                       THEN [contr EXCEPT ![idx] = acc.best_contribution]
                       ELSE contr,
     total_inv     |-> IF acc.best_f # sched[idx]
                       THEN CommitAggregate(base, acc.best_contribution, MM)
                       ELSE tot,
     current_peak  |-> acc.current_peak,
     improved      |-> acc.improved,
     commit        |-> acc.best_f # sched[idx]]

\* Lines 230-247: base and the scan over the alternative starting periods.
RefinerBest(idx, mm, dd, MM, sched, contr, base, cur_peak, imp) ==
    refiner_scan(Len(refiner_offsets(mm[idx])), refiner_offsets(mm[idx]),
                 mm[idx], dd[idx], sched[idx], base, MM,
                 [current_peak |-> cur_peak, best_f |-> sched[idx],
                  best_contribution |-> contr[idx], improved |-> imp])

\* The body of "for idx, m_i, d_i in items" for one idx, as a function of
\* the state it reads; the result holds the state it leaves.
VisitItem(idx, mm, dd, MM, sched, contr, tot, cur_peak, imp) ==
    Only({Only({RefinerCommit(idx, MM, sched, contr, tot, base, acc) :
                   acc \in {RefinerBest(idx, mm, dd, MM, sched, contr, base,
                                        cur_peak, imp)}}) :
             base \in {VecSub(tot, contr[idx], MM)}})

(***************************************************************************)
(* The run.  pc is the position in staggering_algorithm:                   *)
(*   "start"  before line 179        "seed"   before line 194              *)
(*   "greedy" at the head of the for loop of line 200                      *)
(*   "while"  at the test of line 225  "for"  at the head of line 229      *)
(*   "done"   after the return of line 259                                 *)
(*   "error"  an exception left the function (err names it)                *)
(***************************************************************************)
N == Len(m)

ValidInput ==
    /\ \A i \in 1..N : m[i] >= 1 /\ d[i] >= 0
    /\ T_max >= 1

\* The caller's arguments, and nothing computed yet.
InitWith(Multipliers, Demands) ==
    /\ \E n \in 0..MaxN :
          /\ m \in [1..n -> Multipliers]
          /\ d \in [1..n -> Demands]
    /\ T_max \in TmaxSet
    /\ pc = "start"
    /\ err = ""
    /\ M = 0
    /\ schedules = <<>>
    /\ contributions = <<>>
    /\ total_inv = <<>>
    /\ items = <<>>
    /\ j = 0
    /\ k = 0
    /\ improved = FALSE
    /\ current_peak = 0
    /\ H = 0

\* Valid inputs: every m_i >= 1, every d_i >= 0, T_max >= 1.
Init == InitWith(1..MaxM, DemandSet)

\* Any integer input the caller can pass, a zero multiplier and a negative
\* demand rate included.
InitAny == InitWith(0..MaxM, DemandSet \cup NegDemandSet)

\* Lines 179-191: horizon, empty data structures, sorted items.
\* contributions[i] = None is held as the empty list.
Start ==
    /\ pc = "start"
    /\ M' = Horizon(m, T_max)
    /\ schedules' = [i \in 1..N |-> 0]
    /\ contributions' = [i \in 1..N |-> <<>>]
    /\ total_inv' = [t \in 1..Horizon(m, T_max) |-> 0]
    /\ items' = SortedItems(m, d)
    /\ pc' = "seed"
    /\ UNCHANGED <<m, d, T_max, err, j, k, improved, current_peak, H>>

\* Lines 194-197: the first item of the sorted order gets offset 1.
SeedFirst ==
    /\ pc = "seed"
    /\ Len(items) >= 1
    /\ \E r \in {SeedStep(items[1], m, d, M, schedules, contributions)} :
           /\ schedules' = r.schedules
           /\ contributions' = r.contributions
           /\ total_inv' = r.total_inv
    /\ j' = 2
    /\ pc' = "greedy"
    /\ UNCHANGED <<m, d, T_max, err, M, items, k, improved, current_peak, H>>

\* Line 194 with no items: items[0] raises IndexError.
SeedIndexError ==
    /\ pc = "seed"
    /\ Len(items) = 0
    /\ pc' = "error"
    /\ err' = "IndexError"
    /\ UNCHANGED <<m, d, T_max, M, schedules, contributions, total_inv, items,
                   j, k, improved, current_peak, H>>

\* max() of line 211 is called on an empty list: the horizon is 0 and the
\* item has at least one starting period to scan.
GreedyMaxOfEmpty == M < 1 /\ j <= Len(items) /\ m[items[j]] >= 1

\* Lines 201-221: one iteration of the greedy loop.
GreedyPlace ==
    /\ pc = "greedy"
    /\ j <= Len(items)
    /\ ~GreedyMaxOfEmpty
    /\ \E r \in {GreedyStep(items[j], m, d, M, schedules, contributions,
                            total_inv)} :
           /\ schedules' = r.schedules
           /\ contributions' = r.contributions
           /\ total_inv' = r.total_inv
    /\ j' = j + 1
    /\ UNCHANGED <<m, d, T_max, pc, err, M, items, k, improved, current_peak, H>>

\* Line 211 on an empty horizon: max() raises ValueError.
GreedyValueError ==
    /\ pc = "greedy"
    /\ GreedyMaxOfEmpty
    /\ pc' = "error"
    /\ err' = "ValueError"
    /\ UNCHANGED <<m, d, T_max, M, schedules, contributions, total_inv, items,
                   j, k, improved, current_peak, H>>

\* Line 200 exhausted, line 224: improved = True.
GreedyDone ==
    /\ pc = "greedy"
    /\ j > Len(items)
    /\ improved' = TRUE
    /\ pc' = "while"
    /\ UNCHANGED <<m, d, T_max, err, M, schedules, contributions, total_inv,
                   items, j, k, current_peak, H>>

\* Lines 225-227: a pass begins.
PassStart ==
    /\ pc = "while"
    /\ improved
    /\ Len(total_inv) >= 1
    /\ improved' = FALSE
    /\ current_peak' = max(total_inv)
    /\ k' = 1
    /\ pc' = "for"
    /\ UNCHANGED <<m, d, T_max, err, M, schedules, contributions, total_inv,
                   items, j, H>>

\* Line 227 on an empty horizon: max() raises ValueError.
PassValueError ==
    /\ pc = "while"
    /\ improved
    /\ Len(total_inv) < 1
    /\ pc' = "error"
    /\ err' = "ValueError"
    /\ UNCHANGED <<m, d, T_max, M, schedules, contributions, total_inv, items,
                   j, k, improved, current_peak, H>>

\* Lines 229-254: the pass visits the k-th item of the sorted order.
Visit ==
    /\ pc = "for"
    /\ k <= Len(items)
    /\ \E r \in {VisitItem(items[k], m, d, M, schedules, contributions,
                           total_inv, current_peak, improved)} :
           /\ schedules' = r.schedules
           /\ contributions' = r.contributions
           /\ total_inv' = r.total_inv
           /\ current_peak' = r.current_peak
           /\ improved' = r.improved
    /\ k' = k + 1
    /\ UNCHANGED <<m, d, T_max, pc, err, M, items, j, H>>

\* Line 229 exhausted: back to the test of line 225.
PassEnd ==
    /\ pc = "for"
    /\ k > Len(items)
    /\ pc' = "while"
    /\ UNCHANGED <<m, d, T_max, err, M, schedules, contributions, total_inv,
                   items, j, k, improved, current_peak, H>>

\* Lines 225 (improved is False) and 257-259: the result.
Finish ==
    /\ pc = "while"
    /\ ~improved
    /\ H' = ReportedPeak(max(total_inv))
    /\ pc' = "done"
    /\ UNCHANGED <<m, d, T_max, err, M, schedules, contributions, total_inv,
                   items, j, k, improved, current_peak>>

Next ==
    \/ Start
    \/ SeedFirst
    \/ SeedIndexError
    \/ GreedyPlace
    \/ GreedyDone
    \/ PassStart
    \/ Visit
    \/ PassEnd
    \/ Finish

NextAny ==
    \/ Next
    \/ GreedyValueError
    \/ PassValueError

\* Runs on valid inputs.
Spec == Init /\ [][Next]_vars

\* Valid inputs with demand rates 1/32 and 1 and cycles of at least two
\* periods (an item with m_i = 1 has one offset and is never moved).
InitLive == InitWith(2..MaxM, LiveDemandSet)

\* The function is straight-line sequential code: it keeps running until it
\* returns or raises.
FairSpec == InitLive /\ [][Next]_vars /\ WF_vars(Next)

\* Runs on any integer input.
SpecAny == InitAny /\ [][NextAny]_vars

\* Valid inputs with demand rates 1/32 and 1 and cycles one period longer
\* than in Init: an item of the longest cycle has three alternative
\* starting periods, which can tie.
InitWide == InitWith(1..(MaxM + 1), LiveDemandSet)

SpecWide == InitWide /\ [][Next]_vars

(***************************************************************************)
(* Vocabulary of the properties.                                           *)
(***************************************************************************)
\* The items the run has placed so far.
Placed ==
    IF pc = "greedy" THEN {items[p] : p \in 1..(j - 1)}
    ELSE IF pc \in {"while", "for", "done"} THEN 1..N
    ELSE {}

RECURSIVE SumOver(_, _)
SumOver(S, t) ==
    IF S = {} THEN 0
    ELSE LET i == CHOOSE x \in S : TRUE
         IN  contributions[i][t] + SumOver(S \ {i}, t)

\* The peak of the aggregate held now.
Peak == max(total_inv)

\* The peak the aggregate would have with item i moved to offset f and
\* every other item left where it is.
PeakIfMoved(i, f) ==
    max([t \in 1..M |->
            total_inv[t] - contributions[i][t]
            + compute_inventory_profile(m[i], d[i], f, M)[t]])

\* One more full pass over the items, started on the state held now.
RECURSIVE pass_from(_, _)
pass_from(p, st) ==
    IF p > Len(items) THEN st
    ELSE LET r == VisitItem(items[p], m, d, M, st.schedules, st.contributions,
                            st.total_inv, st.current_peak, st.improved)
         IN  pass_from(p + 1, [r EXCEPT !.commit = st.commit \/ r.commit])

OneMorePass ==
    pass_from(1, [schedules |-> schedules, contributions |-> contributions,
                  total_inv |-> total_inv, current_peak |-> max(total_inv),
                  improved |-> FALSE, commit |-> FALSE])

\* The first pass of the refiner, started on the greedy result.
OneMorePassFromGreedy ==
    LET g == GreedyResult(m, d, M)
    IN  pass_from(1, [schedules |-> g.schedules,
                      contributions |-> g.contributions,
                      total_inv |-> g.total_inv,
                      current_peak |-> max(g.total_inv),
                      improved |-> FALSE, commit |-> FALSE])

Halted == pc \in {"done", "error"}

PeakNeverIncreasesInRefiner ==
    [][(pc \in {"while", "for"}) => (max(total_inv') <= Peak)]_vars

\* A pass has ended after lowering the peak below the greedy peak.
PassLoweredPeak ==
    /\ pc = "while"
    /\ k = N + 1
    /\ improved
    /\ Peak < max(GreedyResult(m, d, M).total_inv)

(***************************************************************************)
(* C3.  The schedule the refiner stops on is a local optimum under         *)
(* single-item moves: no item i has an alternative offset f in 1..m_i      *)
(* whose peak is strictly below max(total_inv); and one more full pass on  *)
(* it commits nothing and leaves schedule, contributions and aggregate as  *)
(* they are.                                                               *)
(***************************************************************************)
StopIsLocalOptimum ==
    pc = "done" =>
        /\ \A i \in 1..N : \A f \in 1..m[i] :
              f # schedules[i] => ~(PeakIfMoved(i, f) < Peak)
        /\ \E r \in {OneMorePass} :
              /\ ~r.commit
              /\ ~r.improved
              /\ r.schedules = schedules
              /\ r.contributions = contributions
              /\ r.total_inv = total_inv

\* The run has returned a schedule that the refiner changed.
StoppedAfterMoving ==
    /\ pc = "done"
    /\ N >= 2
    /\ schedules # GreedyResult(m, d, M).schedules

(***************************************************************************)
(* C4.  The improvement loop terminates: every step that changes the       *)
(* schedule in the refiner strictly lowers the peak, and every run         *)
(* eventually returns or raises.                                           *)
(***************************************************************************)
RefinerTerminates == <>Halted

\* A run whose first pass committed, so that it needed a second pass, has
\* returned.
ReturnedAfterSecondPass ==
    /\ pc = "done"
    /\ OneMorePassFromGreedy.commit
    /\ Peak < max(GreedyResult(m, d, M).total_inv)

(***************************************************************************)
(* C5.  Every placed item has exactly one integer offset in 1..m_i, in     *)
(* every state of the greedy and refiner phases; in the returned schedule  *)
(* no item keeps the placeholder 0 or None.                                *)
(***************************************************************************)
OffsetsInRange ==
    /\ \A i \in Placed : schedules[i] \in 1..m[i]
    /\ pc = "done" => Len(schedules) = N /\ Placed = 1..N

\* A returned schedule that uses the last offset of a cycle.
ReturnedWithLastOffset ==
    /\ pc = "done"
    /\ N >= 2
    /\ \E i \in 1..N : m[i] >= 2 /\ schedules[i] = m[i]

(***************************************************************************)
(* C6.  Invalid item data (some m_i < 1, some d_i < 0) is rejected with    *)
(* InvalidCycle / InvalidDemand before the horizon is used and before any  *)
(* offset, contribution or aggregate entry is assigned; a zero multiplier  *)
(* never yields the horizon 0.                                             *)
(***************************************************************************)
InvalidInputRejectedFirst ==
    ~ValidInput =>
        /\ pc \in {"start", "error"}
        /\ pc = "error" => err \in {"InvalidCycle", "InvalidDemand"}
        /\ pc # "start" => M # 0
        /\ \A i \in 1..Len(schedules) : schedules[i] = 0
        /\ \A i \in 1..Len(contributions) : contributions[i] = <<>>
        /\ \A t \in 1..Len(total_inv) : total_inv[t] = 0

(***************************************************************************)
(* C7.  A single item with valid m_1, d_1 and any horizon cap T_max >= 1   *)
(* is returned with offset 1 and with a peak equal to the lot size         *)
(* d_1 * m_1.                                                              *)
(***************************************************************************)
SingleItemOffsetOneLotSizePeak ==
    (pc = "done" /\ N = 1) =>
        /\ schedules[1] = 1
        /\ H * Scale = d[1] * m[1]

\* q tenths is round(v/Scale, 1): the nearest tenth, a tie going to the
\* even tenth.
IsRound1(v, q) ==
    \/ 2 * Abs(10 * v - q * Scale) < Scale
    \/ 2 * Abs(10 * v - q * Scale) = Scale /\ q % 2 = 0

\* h is math.ceil of q tenths.
IsCeilOfTenths(q, h) == 10 * h >= q /\ 10 * (h - 1) < q

(***************************************************************************)
(* C7 as amended.  A single item with valid m_1, d_1 and a horizon cap     *)
(* T_max >= m_1 is returned with offset 1 and with the peak                *)
(* ceil(round(d_1 * m_1, 1)): the lot size rounded to one decimal and then *)
(* up to an integer (the lot size itself when it is an integer).           *)
(***************************************************************************)
SingleItemUncappedRoundedPeak ==
    (pc = "done" /\ N = 1 /\ T_max >= m[1]) =>
        /\ schedules[1] = 1
        /\ \E q \in 0..(10 * m[1] * d[1]) :
              IsRound1(d[1] * m[1], q) /\ IsCeilOfTenths(q, H)
        /\ (d[1] * m[1]) % Scale = 0 => H * Scale = d[1] * m[1]

\* A single item with a fractional lot size has been returned on an
\* untruncated horizon of several periods.
SingleItemReturned ==
    /\ pc = "done"
    /\ N = 1
    /\ m[1] >= 2
    /\ T_max >= m[1]
    /\ (d[1] * m[1]) % Scale # 0

(***************************************************************************)
(* C8.  Two items with m = [2,2], d = [1,1] on the horizon M = 2 are       *)
(* returned with opposite offsets, the aggregate [3,3] and the peak 3,     *)
(* never with equal offsets (aggregate [4,2] or [2,4], peak 4).            *)
(***************************************************************************)
TwoEqualItemsStaggered ==
    (pc = "done" /\ m = <<2, 2>> /\ d = <<Scale, Scale>> /\ M = 2) =>
        /\ schedules[1] # schedules[2]
        /\ total_inv = <<3 * Scale, 3 * Scale>>
        /\ H = 3

\* That input has been run to the end.
TwoEqualItemsReturned ==
    /\ pc = "done"
    /\ m = <<2, 2>>
    /\ d = <<Scale, Scale>>
    /\ M = 2
    /\ T_max > 2

(***************************************************************************)
(* C9.  The horizon is M = min(LCM(m_1..m_N), T_max), where lcm_of_list    *)
(* yields the true least common multiple: 1 for the empty list, m for the  *)
(* list [m]; and when the LCM does not exceed T_max, M is a multiple of    *)
(* every m_i.                                                              *)
(***************************************************************************)
\* L is the least positive integer that every m_i divides.
IsLeastCommonMultiple(L) ==
    /\ L >= 1
    /\ \A i \in 1..N : L % m[i] = 0
    /\ \A L2 \in 1..(L - 1) : \E i \in 1..N : L2 % m[i] # 0

HorizonIsCappedLcm ==
    /\ IsLeastCommonMultiple(lcm_of_list(m))
    /\ N = 0 => lcm_of_list(m) = 1
    /\ N = 1 => lcm_of_list(m) = m[1]
    /\ pc # "start" =>
          /\ M <= T_max
          /\ M <= lcm_of_list(m)
          /\ M = T_max \/ M = lcm_of_list(m)
          /\ lcm_of_list(m) <= T_max => \A i \in 1..N : M % m[i] = 0

\* A horizon below the product of the multipliers and below the cap.
HorizonOfSharedFactor ==
    /\ pc = "seed"
    /\ N = 3
    /\ M < m[1] * m[2] * m[3]
    /\ M < T_max
    /\ \A i \in 1..N : m[i] >= 2

(***************************************************************************)
(* C10.  The greedy phase places the items in ascending lot-size order,    *)
(* equal lot sizes in index order; the first gets offset 1; each later     *)
(* item gets the smallest offset f in 1..m_i that minimises the peak of    *)
(* (aggregate of the items placed before it + profile(m_i, d_i, f)), and   *)
(* its contribution is in the aggregate before the next item is looked at. *)
(***************************************************************************)
\* items lists every index once, by lot size and then by index.
ItemsInLotSizeOrder ==
    /\ Len(items) = N
    /\ {items[p] : p \in 1..N} = 1..N
    /\ \A a \in 1..N : \A b \in (a + 1)..N :
          \/ LotSize(m, d, items[a]) < LotSize(m, d, items[b])
          \/ /\ LotSize(m, d, items[a]) = LotSize(m, d, items[b])
             /\ items[a] < items[b]

\* The aggregate of the items at positions 1..p-1 of the sorted order,
\* each at the offset the schedule holds for it.
AggregateBefore(p) ==
    [t \in 1..M |-> SumOver({items[q] : q \in 1..(p - 1)}, t)]

\* The peak with item i put at offset f on top of the aggregate agg.
PeakOnTop(agg, i, f) ==
    max([t \in 1..M |->
            agg[t] + compute_inventory_profile(m[i], d[i], f, M)[t]])

GreedyPlacesSmallestBestOffset ==
    [][/\ (pc = "seed" /\ pc' = "greedy") =>
            /\ ItemsInLotSizeOrder
            /\ schedules'[items[1]] = 1
            /\ total_inv' =
                  compute_inventory_profile(m[items[1]], d[items[1]], 1, M)
       /\ (pc = "greedy" /\ j' = j + 1) =>
            LET i == items[j]
                f == schedules'[i]
            IN  /\ total_inv = AggregateBefore(j)
                /\ f \in 1..m[i]
                /\ \A g \in 1..m[i] :
                      /\ PeakOnTop(total_inv, i, f) <= PeakOnTop(total_inv, i, g)
                      /\ g < f =>
                            PeakOnTop(total_inv, i, f) < PeakOnTop(total_inv, i, g)
                /\ total_inv' =
                      [t \in 1..M |-> total_inv[t] +
                          compute_inventory_profile(m[i], d[i], f, M)[t]]
      ]_vars

\* Three items have been placed: the first two of equal lot size, the
\* last one out of index order and at an offset that tied with a later one.
GreedyBrokeTies ==
    /\ pc = "greedy"
    /\ j = 4
    /\ LotSize(m, d, items[1]) = LotSize(m, d, items[2])
    /\ items[3] < items[2]
    /\ schedules[items[2]] >= 2
    /\ d[items[3]] > 0
    /\ \E g \in (schedules[items[3]] + 1)..m[items[3]] :
          PeakOnTop(AggregateBefore(3), items[3], g) = Peak

(***************************************************************************)
(* C11.  In the refiner, the visit of item i commits a new offset exactly  *)
(* when some alternative offset f # schedules[i] gives a peak of           *)
(* (base + profile(m_i, d_i, f)) strictly below the running current_peak;  *)
(* the committed offset is the smallest alternative attaining the least    *)
(* such peak; after the commit max(total_inv) equals current_peak and is   *)
(* strictly below the peak before it; and at every item boundary of a pass *)
(* current_peak equals max(total_inv).                                     *)
(***************************************************************************)
\* The alternative offsets of item i whose peak is below the running peak.
BetterOffsets(i) ==
    {f \in (1..m[i]) \ {schedules[i]} : PeakIfMoved(i, f) < current_peak}

RefinerVisitRule ==
    [][(pc = "for" /\ k' = k + 1) =>
          LET i == items[k]
              f == schedules'[i]
          IN  /\ current_peak = Peak
              /\ current_peak' = max(total_inv')
              /\ (f # schedules[i]) <=> (BetterOffsets(i) # {})
              /\ f # schedules[i] =>
                    /\ f \in BetterOffsets(i)
                    /\ \A g \in (1..m[i]) \ {schedules[i]} :
                          /\ PeakIfMoved(i, f) <= PeakIfMoved(i, g)
                          /\ g < f => PeakIfMoved(i, f) < PeakIfMoved(i, g)
                    /\ max(total_inv') = PeakIfMoved(i, f)
                    /\ max(total_inv') < Peak
      ]_vars

\* The item just visited was moved, to an offset that a later alternative
\* offset ties with.
RefinerCommittedSmallestBest ==
    /\ pc = "for"
    /\ k >= 2
    /\ improved
    /\ LET i == items[k - 1]
       IN  /\ schedules[i] # GreedyResult(m, d, M).schedules[i]
           /\ \E g \in (schedules[i] + 1)..m[i] : PeakIfMoved(i, g) = Peak

(***************************************************************************)
(* C12.  Schedule and contributions stay consistent and a commit touches   *)
(* only its own item: in every state of the greedy and refiner phases      *)
(* contributions[i] = compute_inventory_profile(m_i, d_i, schedules[i], M) *)
(* for every placed item i, and a greedy or refiner commit for item i      *)
(* leaves the offset and the contribution of every other item unchanged.   *)
(***************************************************************************)
\* Every placed item's contribution is the profile of its offset.
ContributionsMatchSchedule ==
    \A i \in Placed :
        contributions[i] =
            compute_inventory_profile(m[i], d[i], schedules[i], M)

\* The step changes the offset and the contribution of no item but i.
OnlyItemTouched(i) ==
    \A o \in (1..N) \ {i} :
        /\ schedules'[o] = schedules[o]
        /\ contributions'[o] = contributions[o]

CommitTouchesOwnItemOnly ==
    [][/\ ContributionsMatchSchedule
       /\ ContributionsMatchSchedule'
       /\ (pc = "seed" /\ pc' = "greedy") => OnlyItemTouched(items[1])
       /\ (pc = "greedy" /\ j' = j + 1) => OnlyItemTouched(items[j])
       /\ (pc = "for" /\ k' = k + 1) => OnlyItemTouched(items[k])
      ]_vars

\* The second of three items with demand has just been moved by the
\* refiner, and the other two are where the pass found them.
CommitMovedOneOfThree ==
    /\ pc = "for"
    /\ k = 3
    /\ N = 3
    /\ M >= 2
    /\ \A i \in 1..N : d[i] > 0
    /\ schedules[items[2]] # GreedyResult(m, d, M).schedules[items[2]]
    /\ schedules[items[3]] = GreedyResult(m, d, M).schedules[items[3]]

====
